---------------------------- MODULE Spec2Model ----------------------------
(***************************************************************************)
(* Model of backend/ai_generator.py: AIGenerator.generate_response and the *)
(* sequential tool-calling loop of AIGenerator._handle_tool_execution.     *)
(*                                                                         *)
(* One run of generate_response is a sequence of steps separated by the    *)
(* run's blocking points: the LM call (client.messages.create) and each    *)
(* tool invocation (tool_manager.execute_tool).  The LM and the tools are  *)
(* the environment: an LM call returns any response of Responses(n) or     *)
(* raises, a tool invocation returns a string or raises.                   *)
(***************************************************************************)
EXTENDS Integers, Sequences, FiniteSets, TLC

(***************************************************************************)
(* Program constants                                                       *)
(***************************************************************************)
MAX_TOOL_ROUNDS == 2

SYSTEM_PROMPT == "SYSTEM_PROMPT"

ToolFailureMessage ==
    "I encountered an error while searching for information. Let me provide what I can from my knowledge."

EmptyResponseMessage == "I apologize, but I couldn't generate a response."

NoTextMessage == "I processed your request but couldn't generate a text response."

(***************************************************************************)
(* Bounds of the model                                                     *)
(***************************************************************************)
\* largest number of content blocks in one LM response
MaxBlocks == 2

\* largest number of applications of _extract_text_content on its own
MaxExtractions == 2

(***************************************************************************)
(* Values of the environment                                               *)
(***************************************************************************)
None == "None"

\* the query argument: the empty string is a valid query
Queries == {"", "What is ML?"}

\* the conversation_history argument: absent, empty, or a history text
Histories == {None, "", "User: hi"}

\* the tools argument: omitted (None, which is falsy like the empty list the
\* code's .get("tools", []) puts in its place), or a list of tool schemas
NoTools == <<>>
ToolSchemas == <<"search_course_content", "get_course_outline">>
ToolsArgs == {NoTools, ToolSchemas}

\* the tool_manager argument: absent, or a manager object
ToolManager == "ToolManager"
ToolManagers == {None, ToolManager}

\* what a tool invocation that does not raise returns
ToolOutputs == {"tool output"}

\* The text of a text block and the id of a tool-use block are opaque to the
\* code; the k-th block of the n-th response carries its own text or id, so
\* that a returned text or a tool_use_id names the block it came from.
BlockText ==
    << <<"text 1.1", "text 1.2", "text 1.3", "text 1.4">>,
       <<"text 2.1", "text 2.2", "text 2.3", "text 2.4">>,
       <<"text 3.1", "text 3.2", "text 3.3", "text 3.4">>,
       <<"text 4.1", "text 4.2", "text 4.3", "text 4.4">> >>

BlockId ==
    << <<"toolu 1.1", "toolu 1.2", "toolu 1.3", "toolu 1.4">>,
       <<"toolu 2.1", "toolu 2.2", "toolu 2.3", "toolu 2.4">>,
       <<"toolu 3.1", "toolu 3.2", "toolu 3.3", "toolu 3.4">>,
       <<"toolu 4.1", "toolu 4.2", "toolu 4.3", "toolu 4.4">> >>

\* the tool a tool-use block names and the input it carries: the name goes
\* with the position of the block, the input is the block's own
BlockName ==
    <<"search_course_content", "get_course_outline",
      "search_course_content", "get_course_outline">>

BlockInput ==
    << <<"input 1.1", "input 1.2", "input 1.3", "input 1.4">>,
       <<"input 2.1", "input 2.2", "input 2.3", "input 2.4">>,
       <<"input 3.1", "input 3.2", "input 3.3", "input 3.4">>,
       <<"input 4.1", "input 4.2", "input 4.3", "input 4.4">> >>

\* a text block (it has a text attribute) and a tool-use block (it has none)
TextBlock(n, k) ==
    [type |-> "text", text |-> BlockText[n][k], id |-> None, name |-> None,
     input |-> None]

ToolUseBlock(n, k) ==
    [type |-> "tool_use", text |-> None, id |-> BlockId[n][k],
     name |-> BlockName[k], input |-> BlockInput[n][k]]

BlockKinds == {"text", "tool_use"}

MakeBlock(kind, n, k) ==
    IF kind = "text" THEN TextBlock(n, k) ELSE ToolUseBlock(n, k)

\* the content lists the n-th LM call may return: any mix of at most
\* MaxBlocks text and tool-use blocks, the empty list included
Contents(n) ==
    UNION { { [k \in 1..len |-> MakeBlock(kinds[k], n, k)] :
                 kinds \in [1..len -> BlockKinds] } : len \in 0..MaxBlocks }

StopReasons == {"tool_use", "end_turn"}

\* the responses the n-th LM call may return
Responses(n) ==
    { [stop_reason |-> s, content |-> c] : s \in StopReasons, c \in Contents(n) }

\* every response the LM may return in a run; the n-th call of a run
\* answers from Responses(n)
AllResponses == UNION { Responses(n) : n \in 1..(MAX_TOOL_ROUNDS + 2) }

NoResponse == [stop_reason |-> None, content |-> <<>>]

\* a tool that reports its failure in the string it returns
ErrorStrings == {"Mock search error"}

\* the side-channel of the ToolManager when it holds no sources, and the
\* sources a tool execution of caller c leaves for a tool-use block
NoSources == [caller |-> 0, tool_use_id |-> None]

Sources(c, block) == [caller |-> c, tool_use_id |-> block.id]

\* ToolManager.execute_tool: a tool execution may replace the last sources;
\* an execution that returns an error string leaves them as they were
SourcesAfter(src, out, block, c) ==
    IF out \in ErrorStrings THEN src ELSE Sources(c, block)

\* __init__: self.base_params; messages and system are keys it does not hold
InitialBaseParams ==
    [model |-> "model", temperature |-> 0, max_tokens |-> 1200,
     messages |-> None, system |-> None]

\* the state of a run that has not started
IdleRun ==
    [pc |-> "idle", query |-> None, conversation_history |-> None,
     tools |-> <<>>, tool_manager |-> None,
     api_params |-> [system      |-> <<"SYSTEM_PROMPT">>,
                     messages    |-> << [role |-> "user", content |-> None] >>,
                     keys        |-> {},
                     tools       |-> <<>>,
                     tool_choice |-> None],
     messages |-> <<>>, current_response |-> NoResponse, round_count |-> 0,
     tool_results |-> <<>>, blockIdx |-> 0, requests |-> <<>>,
     responses |-> <<>>, executed |-> <<>>, batches |-> 0,
     outcome |-> "running", result |-> None, faults |-> <<>>,
     sources_before |-> NoSources.caller]

(***************************************************************************)
(* State                                                                   *)
(***************************************************************************)
VARIABLES
    pc,                    \* where the run is: idle, lm_first, tool_call, lm_next, done
    query,                 \* arguments of generate_response
    conversation_history,
    tools,
    tool_manager,
    api_params,            \* parameters of the first LM request (base_params of the loop)
    messages,              \* the loop's conversation
    current_response,      \* the loop's current_response
    round_count,           \* the loop's round_count
    tool_results,          \* _execute_all_tools: results collected so far
    blockIdx,              \* _execute_all_tools: position of the block being executed
    requests,              \* every LM request sent, as it was when sent
    responses,             \* every LM response obtained
    executed,              \* every tool invocation issued
    batches,               \* number of calls of _execute_all_tools
    outcome,               \* running, returned or raised
    result,                \* the string returned, or the exception raised
    faults,                \* what the environment raised: LM calls and tool invocations
    extracted,             \* _extract_text_content on its own: responses given, strings returned
    base_params,           \* self.base_params of the AIGenerator, shared by its runs
    last_sources,          \* the last-sources side-channel of the ToolManager
    sources_before,        \* whose sources the side-channel held when the run started
    caller,                \* the caller whose run the run state above belongs to
    parked                 \* the run state of the other caller's run

argvars == <<query, conversation_history, tools, tool_manager, api_params>>
vars == <<pc, query, conversation_history, tools, tool_manager, api_params,
          messages, current_response, round_count, tool_results, blockIdx,
          requests, responses, executed, batches, outcome, result, faults,
          extracted, base_params, last_sources, sources_before, caller, parked>>

\* the state a step of a run leaves alone unless it says otherwise: the
\* state shared by the runs and the other caller's run
sessionvars == <<base_params, last_sources, sources_before, caller, parked>>

(***************************************************************************)
(* Pure helpers                                                            *)
(***************************************************************************)
\* Python truthiness of the optional string argument
HistoryGiven(h) == h # None /\ h # ""

\* the history is tested against None instead of for truth: an empty
\* history gets a section of its own
SystemContentWhenNotNone(h) ==
    IF h # None
    THEN <<SYSTEM_PROMPT, "\n\nPrevious conversation:\n", h>>
    ELSE <<SYSTEM_PROMPT>>

\* generate_response: system_content
SystemContent(h) ==
    IF HistoryGiven(h)
    THEN <<SYSTEM_PROMPT, "\n\nPrevious conversation:\n", h>>
    ELSE <<SYSTEM_PROMPT>>

\* api_params is self.base_params itself, updated in place: the messages
\* and the system content of the run are written into the shared dict
BaseParamsUpdatedInPlace(shared, q, h, t) ==
    [shared EXCEPT !.messages = q, !.system = SystemContent(h)]

\* generate_response, lines 86-90: api_params is a new dict built from
\* self.base_params, which is left as it is
BaseParamsAfterBuild(shared, q, h, t) == shared

\* tools and tool_choice are put into the request whether or not tool
\* schemas were supplied
ApiParamsAlwaysTools(q, h, t) ==
    [system      |-> SystemContent(h),
     messages    |-> << [role |-> "user", content |-> q] >>,
     keys        |-> {"tools", "tool_choice"},
     tools       |-> t,
     tool_choice |-> "auto"]

\* generate_response: api_params, with tools and tool_choice only when tools is truthy
ApiParams(q, h, t) ==
    [system      |-> SystemContent(h),
     messages    |-> << [role |-> "user", content |-> q] >>,
     keys        |-> IF t # <<>> THEN {"tools", "tool_choice"} ELSE {},
     tools       |-> IF t # <<>> THEN t ELSE <<>>,
     tool_choice |-> IF t # <<>> THEN "auto" ELSE None]

\* the follow-up request is rebuilt from the static prompt: the history is lost
NextParamsWithoutHistory(base, msgs) ==
    [system      |-> <<SYSTEM_PROMPT>>,
     messages    |-> msgs,
     keys        |-> {"tools", "tool_choice"},
     tools       |-> IF "tools" \in base.keys THEN base.tools ELSE <<>>,
     tool_choice |-> IF "tools" \in base.keys /\ base.tools # <<>> THEN "auto" ELSE None]

\* the follow-up request carries no tools: the LM can no longer call them
NextParamsWithoutTools(base, msgs) ==
    [system      |-> base.system,
     messages    |-> msgs,
     keys        |-> {},
     tools       |-> <<>>,
     tool_choice |-> None]

\* the conversation is not accumulated: the follow-up request holds the
\* first request's messages and the messages of the last round only
NextParamsLastRoundOnly(base, msgs) ==
    LET A == { i \in 1..Len(msgs) : msgs[i].role = "assistant" }
        a == CHOOSE i \in A : \A j \in A : j <= i
    IN  [system      |-> base.system,
         messages    |-> base.messages \o SubSeq(msgs, a, Len(msgs)),
         keys        |-> {"tools", "tool_choice"},
         tools       |-> IF "tools" \in base.keys THEN base.tools ELSE <<>>,
         tool_choice |-> IF "tools" \in base.keys /\ base.tools # <<>>
                         THEN "auto" ELSE None]

\* _handle_tool_execution: next_params
NextParams(base, msgs) ==
    [system      |-> base.system,
     messages    |-> msgs,
     keys        |-> {"tools", "tool_choice"},
     tools       |-> IF "tools" \in base.keys THEN base.tools ELSE <<>>,
     tool_choice |-> IF "tools" \in base.keys /\ base.tools # <<>> THEN "auto" ELSE None]

\* hasattr(content_block, "text")
HasText(block) == block.type = "text"

\* only the first tool-use block of a response is executed
NextToolUseFirstOnly(content, from) ==
    IF from = 1 /\ \E k \in 1..Len(content) : content[k].type = "tool_use"
    THEN CHOOSE k \in 1..Len(content) :
             /\ content[k].type = "tool_use"
             /\ \A j \in 1..(k - 1) : content[j].type # "tool_use"
    ELSE 0

\* position of the first tool-use block of content at or after from, 0 if none
NextToolUse(content, from) ==
    LET S == { k \in from..Len(content) : content[k].type = "tool_use" }
    IN  IF S = {} THEN 0 ELSE CHOOSE k \in S : \A j \in S : k <= j

\* one fallback string for every response without text, the empty one included
ExtractTextContentOneFallback(response) ==
    IF response = NoResponse \/ response.content = <<>>
    THEN NoTextMessage
    ELSE IF HasText(response.content[1])
    THEN response.content[1].text
    ELSE LET S == { k \in 1..Len(response.content) : HasText(response.content[k]) }
         IN  IF S = {} THEN NoTextMessage
             ELSE response.content[CHOOSE k \in S : \A j \in S : k <= j].text

\* only the first content element is looked at; the scan for a later
\* text block is missing
ExtractTextContentFirstOnly(response) ==
    IF response = NoResponse \/ response.content = <<>>
    THEN EmptyResponseMessage
    ELSE IF HasText(response.content[1])
    THEN response.content[1].text
    ELSE NoTextMessage

\* _extract_text_content
ExtractTextContent(response) ==
    IF response = NoResponse \/ response.content = <<>>
    THEN EmptyResponseMessage
    ELSE IF HasText(response.content[1])
    THEN response.content[1].text
    ELSE LET S == { k \in 1..Len(response.content) : HasText(response.content[k]) }
         IN  IF S = {} THEN NoTextMessage
             ELSE response.content[CHOOSE k \in S : \A j \in S : k <= j].text

\* the text of the last content element is returned instead of the first
DirectTextOfLastBlock(response) ==
    IF response.content = <<>>
    THEN [outcome |-> "raised", result |-> "IndexError"]
    ELSE IF HasText(response.content[Len(response.content)])
    THEN [outcome |-> "returned",
          result  |-> response.content[Len(response.content)].text]
    ELSE [outcome |-> "raised", result |-> "AttributeError"]

\* generate_response: response.content[0].text, which raises on an empty
\* content list and on a first block without a text attribute
DirectText(response) ==
    IF response.content = <<>>
    THEN [outcome |-> "raised", result |-> "IndexError"]
    ELSE IF HasText(response.content[1])
    THEN [outcome |-> "returned", result |-> response.content[1].text]
    ELSE [outcome |-> "raised", result |-> "AttributeError"]

\* the loop condition counting LM calls instead of tool rounds: the first
\* call uses up a round
LoopContinuesCountingCalls(rc) == rc < MAX_TOOL_ROUNDS - 1

\* the loop condition off by one: a further round is allowed
LoopContinuesOffByOne(rc) == rc <= MAX_TOOL_ROUNDS

\* the loop condition is always true: the cap on the rounds is missing
LoopContinuesWithoutCap(rc) == TRUE

\* _handle_tool_execution: the loop condition, with round_count rc
LoopContinues(rc) == rc < MAX_TOOL_ROUNDS

\* the test of the current response is missing: every response opens a batch
StopsForToolsAlways(response) == TRUE

\* _handle_tool_execution: the test of the current response inside the loop
StopsForTools(response) == response.stop_reason = "tool_use"

\* the return after the loop extracts from the response that opened the
\* last round instead of the one obtained last
FinalTextOfPreviousResponse(response) ==
    ExtractTextContent(responses[Len(responses)])

\* _handle_tool_execution: the return after the loop
FinalText(response) == ExtractTextContent(response)

\* the test of the tool manager is missing: a response that requests tools
\* enters the round loop whether or not a tool manager was supplied
EntersToolLoopIgnoringManager(response, tm) ==
    response.stop_reason = "tool_use"

\* generate_response: the condition under which the round loop is entered
EntersToolLoop(response, tm) ==
    response.stop_reason = "tool_use" /\ tm # None

\* _handle_tool_execution: error_msg of a failed follow-up call
ErrorMessage(rc) ==
    IF rc = 1 THEN "Error in tool execution round 1: LM error"
    ELSE "Error in tool execution round 2: LM error"

\* a failed follow-up call falls back to the first response of the run
\* instead of the response obtained last
TransportFailureTextOfFirstResponse(response, rc) ==
    IF response # NoResponse THEN ExtractTextContent(responses[1]) ELSE ErrorMessage(rc)

\* _handle_tool_execution: what a failed follow-up call returns
TransportFailureText(response, rc) ==
    IF response # NoResponse THEN ExtractTextContent(response) ELSE ErrorMessage(rc)

(***************************************************************************)
(* Initial state: the AIGenerator is constructed, no run has started       *)
(***************************************************************************)
Init ==
    /\ pc = "idle"
    /\ query = None
    /\ conversation_history = None
    /\ tools = NoTools
    /\ tool_manager = None
    /\ api_params = ApiParams(None, None, NoTools)
    /\ messages = <<>>
    /\ current_response = NoResponse
    /\ round_count = 0
    /\ tool_results = <<>>
    /\ blockIdx = 0
    /\ requests = <<>>
    /\ responses = <<>>
    /\ executed = <<>>
    /\ batches = 0
    /\ outcome = "running"
    /\ result = None
    /\ faults = <<>>
    /\ extracted = <<>>
    /\ base_params = InitialBaseParams
    /\ last_sources = NoSources
    /\ sources_before = NoSources.caller
    /\ caller = 1
    /\ parked = IdleRun

(***************************************************************************)
(* Steps of the code shared by several actions                             *)
(***************************************************************************)
\* a return statement of the run
Return(text) ==
    /\ pc' = "done"
    /\ outcome' = "returned"
    /\ result' = text

\* the user message is appended also when the batch collected no result
SendFollowUpUnguarded(msgs, results) ==
    LET withResults == Append(msgs, [role |-> "user", content |-> results])
    IN  /\ messages' = withResults
        /\ requests' = Append(requests, NextParams(api_params, withResults))
        /\ pc' = "lm_next"
        /\ UNCHANGED <<outcome, result>>

\* the follow-up request is built and sent before the results of the batch
\* are appended to the conversation
SendFollowUpBeforeResults(msgs, results) ==
    LET withResults ==
            IF results # <<>>
            THEN Append(msgs, [role |-> "user", content |-> results])
            ELSE msgs
    IN  /\ messages' = withResults
        /\ requests' = Append(requests, NextParams(api_params, msgs))
        /\ pc' = "lm_next"
        /\ UNCHANGED <<outcome, result>>

\* _handle_tool_execution, lines 148-163: append the results of the batch
\* if there are any, build next_params and send the follow-up request
SendFollowUp(msgs, results) ==
    LET withResults ==
            IF results # <<>>
            THEN Append(msgs, [role |-> "user", content |-> results])
            ELSE msgs
    IN  /\ messages' = withResults
        /\ requests' = Append(requests, NextParams(api_params, withResults))
        /\ pc' = "lm_next"
        /\ UNCHANGED <<outcome, result>>

\* every invocation of a batch is made with the name and the input of the
\* first tool-use block of the response
InvokeToolWithFirstInput(response, k, rc) ==
    LET first == NextToolUse(response.content, 1)
    IN  /\ executed' = Append(executed, [round |-> rc,
                                         id    |-> response.content[k].id,
                                         name  |-> response.content[first].name,
                                         input |-> response.content[first].input])
        /\ blockIdx' = k
        /\ pc' = "tool_call"

\* _execute_all_tools, lines 203-205: tool_manager.execute_tool is called
\* for the tool-use block at position k of the response
InvokeTool(response, k, rc) ==
    /\ executed' = Append(executed, [round |-> rc,
                                     id    |-> response.content[k].id,
                                     name  |-> response.content[k].name,
                                     input |-> response.content[k].input])
    /\ blockIdx' = k
    /\ pc' = "tool_call"

\* _handle_tool_execution, lines 135-141, and the start of _execute_all_tools:
\* the assistant message is appended and the batch runs up to its first
\* tool invocation; a response without tool-use blocks gives an empty batch
StartBatch(response, msgs, rc) ==
    LET withAssistant ==
            Append(msgs, [role |-> "assistant", content |-> response.content])
        k == NextToolUse(response.content, 1)
    IN  /\ batches' = batches + 1
        /\ tool_results' = <<>>
        /\ IF k = 0
           THEN /\ SendFollowUp(withAssistant, <<>>)
                /\ UNCHANGED <<executed, blockIdx>>
           ELSE /\ InvokeTool(response, k, rc)
                /\ messages' = withAssistant
                /\ UNCHANGED <<requests, outcome, result>>

\* _handle_tool_execution, lines 125-131 and 176-178: the loop test with
\* round_count rc and current_response response
RoundLoop(response, msgs, rc) ==
    IF LoopContinues(rc)
    THEN /\ round_count' = rc + 1
         /\ IF ~StopsForTools(response)
            THEN /\ Return(ExtractTextContent(response))
                 /\ messages' = msgs
                 /\ UNCHANGED <<tool_results, blockIdx, requests, executed, batches>>
            ELSE StartBatch(response, msgs, rc + 1)
    ELSE /\ Return(FinalText(response))
         /\ round_count' = rc
         /\ messages' = msgs
         /\ UNCHANGED <<tool_results, blockIdx, requests, executed, batches>>

(***************************************************************************)
(* Actions                                                                 *)
(***************************************************************************)
\* the engine clears the side-channel of the ToolManager when a run starts
GenerateResponseResettingSources(q, h, t, tm) ==
    /\ pc = "idle"
    /\ query' = q
    /\ conversation_history' = h
    /\ tools' = t
    /\ tool_manager' = tm
    /\ api_params' = ApiParams(q, h, t)
    /\ requests' = Append(requests, ApiParams(q, h, t))
    /\ pc' = "lm_first"
    /\ base_params' = BaseParamsAfterBuild(base_params, q, h, t)
    /\ sources_before' = last_sources.caller
    /\ last_sources' = NoSources
    /\ UNCHANGED <<messages, current_response, round_count, tool_results,
                   blockIdx, responses, executed, batches, outcome, result,
                   faults, extracted>>
    /\ UNCHANGED <<caller, parked>>

\* generate_response, lines 78-98: the request is built and the first LM
\* call is issued
GenerateResponse(q, h, t, tm) ==
    /\ pc = "idle"
    /\ query' = q
    /\ conversation_history' = h
    /\ tools' = t
    /\ tool_manager' = tm
    /\ api_params' = ApiParams(q, h, t)
    /\ requests' = Append(requests, ApiParams(q, h, t))
    /\ pc' = "lm_first"
    /\ base_params' = BaseParamsAfterBuild(base_params, q, h, t)
    /\ sources_before' = last_sources.caller
    /\ UNCHANGED <<messages, current_response, round_count, tool_results,
                   blockIdx, responses, executed, batches, outcome, result,
                   faults, extracted>>
    /\ UNCHANGED <<last_sources, caller, parked>>

\* generate_response, lines 98-105: the first LM call returns r
FirstCallReturns(r) ==
    /\ pc = "lm_first"
    /\ r \in Responses(Len(requests))
    /\ responses' = Append(responses, r)
    /\ IF EntersToolLoop(r, tool_manager)
       THEN /\ current_response' = r
            /\ RoundLoop(r, api_params.messages, 0)
       ELSE /\ pc' = "done"
            /\ outcome' = DirectText(r).outcome
            /\ result' = DirectText(r).result
            /\ UNCHANGED <<messages, current_response, round_count, tool_results,
                           blockIdx, requests, executed, batches>>
    /\ UNCHANGED faults
    /\ UNCHANGED argvars
    /\ UNCHANGED extracted
    /\ UNCHANGED sessionvars

\* generate_response, line 98: the first LM call raises; nothing catches it
FirstCallRaises ==
    /\ pc = "lm_first"
    /\ pc' = "done"
    /\ outcome' = "raised"
    /\ result' = "LM error"
    /\ faults' = Append(faults, [kind |-> "lm", calls |-> Len(requests)])
    /\ UNCHANGED <<messages, current_response, round_count, tool_results,
                   blockIdx, requests, responses, executed, batches>>
    /\ UNCHANGED argvars
    /\ UNCHANGED extracted
    /\ UNCHANGED sessionvars

\* the string a tool returns is inspected: an error string is taken for a
\* failure of the batch, which ends the run with the apology
ToolReturnsRejectingErrorStrings(out) ==
    /\ pc = "tool_call"
    /\ LET collected ==
               Append(tool_results,
                      [type        |-> "tool_result",
                       tool_use_id |-> current_response.content[blockIdx].id,
                       content     |-> out])
           k == NextToolUse(current_response.content, blockIdx + 1)
       IN  IF out \in ErrorStrings
           THEN /\ tool_results' = <<>>
                /\ Return(ToolFailureMessage)
                /\ UNCHANGED <<messages, requests, executed, blockIdx>>
           ELSE /\ tool_results' = collected
                /\ IF k = 0
                   THEN /\ SendFollowUp(messages, collected)
                        /\ UNCHANGED <<executed, blockIdx>>
                   ELSE /\ InvokeTool(current_response, k, round_count)
                        /\ UNCHANGED <<messages, requests, outcome, result>>
    /\ last_sources' = SourcesAfter(last_sources, out,
                                    current_response.content[blockIdx], caller)
    /\ UNCHANGED <<current_response, round_count, responses, batches, faults>>
    /\ UNCHANGED argvars
    /\ UNCHANGED extracted
    /\ UNCHANGED <<base_params, sources_before, caller, parked>>

\* _execute_all_tools, lines 203-217: the pending tool invocation returns
\* out; the batch goes on to its next tool-use block or, after the last,
\* the follow-up request is sent
ToolReturns(out) ==
    /\ pc = "tool_call"
    /\ LET collected ==
               Append(tool_results,
                      [type        |-> "tool_result",
                       tool_use_id |-> current_response.content[blockIdx].id,
                       content     |-> out])
           k == NextToolUse(current_response.content, blockIdx + 1)
       IN  /\ tool_results' = collected
           /\ IF k = 0
              THEN /\ SendFollowUp(messages, collected)
                   /\ UNCHANGED <<executed, blockIdx>>
              ELSE /\ InvokeTool(current_response, k, round_count)
                   /\ UNCHANGED <<messages, requests, outcome, result>>
    /\ last_sources' = SourcesAfter(last_sources, out,
                                    current_response.content[blockIdx], caller)
    /\ UNCHANGED <<current_response, round_count, responses, batches, faults>>
    /\ UNCHANGED argvars
    /\ UNCHANGED extracted
    /\ UNCHANGED <<base_params, sources_before, caller, parked>>

\* the failure of the batch is not checked: the follow-up request is sent
\* after a tool raised
ToolRaisesSendsFollowUp ==
    /\ pc = "tool_call"
    /\ tool_results' = <<>>
    /\ faults' = Append(faults, [kind |-> "tool", calls |-> Len(requests)])
    /\ SendFollowUp(messages, <<>>)
    /\ UNCHANGED <<current_response, round_count, blockIdx, responses,
                   executed, batches>>
    /\ UNCHANGED argvars
    /\ UNCHANGED extracted
    /\ UNCHANGED sessionvars

\* the exception is caught per tool: the raising block is skipped and the
\* batch goes on with the blocks after it
ToolRaisesSkipsBlock ==
    /\ pc = "tool_call"
    /\ faults' = Append(faults, [kind |-> "tool", calls |-> Len(requests)])
    /\ LET k == NextToolUse(current_response.content, blockIdx + 1)
       IN  /\ tool_results' = tool_results
           /\ IF k = 0
              THEN /\ SendFollowUp(messages, tool_results)
                   /\ UNCHANGED <<executed, blockIdx>>
              ELSE /\ InvokeTool(current_response, k, round_count)
                   /\ UNCHANGED <<messages, requests, outcome, result>>
    /\ UNCHANGED <<current_response, round_count, responses, batches>>
    /\ UNCHANGED argvars
    /\ UNCHANGED extracted
    /\ UNCHANGED sessionvars

\* the exception of a tool invocation is not caught and leaves the run
ToolRaisesUncaught ==
    /\ pc = "tool_call"
    /\ tool_results' = <<>>
    /\ pc' = "done"
    /\ outcome' = "raised"
    /\ result' = "tool error"
    /\ faults' = Append(faults, [kind |-> "tool", calls |-> Len(requests)])
    /\ UNCHANGED <<messages, current_response, round_count, blockIdx,
                   requests, responses, executed, batches>>
    /\ UNCHANGED argvars
    /\ UNCHANGED extracted
    /\ UNCHANGED sessionvars

\* _execute_all_tools, lines 219-221, and _handle_tool_execution, lines
\* 144-146: the pending tool invocation raises
ToolRaises ==
    /\ pc = "tool_call"
    /\ tool_results' = <<>>
    /\ Return(ToolFailureMessage)
    /\ faults' = Append(faults, [kind |-> "tool", calls |-> Len(requests)])
    /\ UNCHANGED <<messages, current_response, round_count, blockIdx,
                   requests, responses, executed, batches>>
    /\ UNCHANGED argvars
    /\ UNCHANGED extracted
    /\ UNCHANGED sessionvars

\* _handle_tool_execution, lines 163-166 and the next loop test: the
\* follow-up LM call returns r
FollowUpReturns(r) ==
    /\ pc = "lm_next"
    /\ r \in Responses(Len(requests))
    /\ responses' = Append(responses, r)
    /\ current_response' = r
    /\ RoundLoop(r, messages, round_count)
    /\ UNCHANGED faults
    /\ UNCHANGED argvars
    /\ UNCHANGED extracted
    /\ UNCHANGED sessionvars

\* _handle_tool_execution, lines 167-174: the follow-up LM call raises
FollowUpRaises ==
    /\ pc = "lm_next"
    /\ Return(TransportFailureText(current_response, round_count))
    /\ faults' = Append(faults, [kind |-> "lm", calls |-> Len(requests)])
    /\ UNCHANGED <<messages, current_response, round_count, tool_results,
                   blockIdx, requests, responses, executed, batches>>
    /\ UNCHANGED argvars
    /\ UNCHANGED extracted
    /\ UNCHANGED sessionvars

Next ==
    \/ \E q \in Queries, h \in Histories, t \in ToolsArgs, tm \in ToolManagers :
           GenerateResponse(q, h, t, tm)
    \/ \E r \in AllResponses : FirstCallReturns(r)
    \/ FirstCallRaises
    \/ \E out \in ToolOutputs : ToolReturns(out)
    \/ ToolRaises
    \/ \E r \in AllResponses : FollowUpReturns(r)
    \/ FollowUpRaises

Spec == Init /\ [][Next]_vars

(***************************************************************************)
(* _extract_text_content on its own                                        *)
(***************************************************************************)
\* the responses _extract_text_content is given: no response at all (None)
\* and every response shape, the empty content included
ExtractInputs == Responses(1) \cup {NoResponse}

\* _extract_text_content(r) is called and returns
ApplyExtract(r) ==
    /\ Len(extracted) < MaxExtractions
    /\ extracted' = Append(extracted,
                           [response |-> r, text |-> ExtractTextContent(r)])
    /\ UNCHANGED <<pc, messages, current_response, round_count, tool_results,
                   blockIdx, requests, responses, executed, batches, outcome,
                   result, faults>>
    /\ UNCHANGED argvars
    /\ UNCHANGED sessionvars

ExtractNext == \E r \in ExtractInputs : ApplyExtract(r)

ExtractSpec == Init /\ [][ExtractNext]_vars

(***************************************************************************)
(* Two callers on one AIGenerator and one ToolManager                      *)
(*                                                                         *)
(* The run state (the arguments and locals of generate_response and of     *)
(* _handle_tool_execution, with the record of what the run did) belongs to *)
(* one call; a second call has a run state of its own.  The variables      *)
(* above hold the run of the caller that is running, parked holds the      *)
(* other caller's run, and Switch hands the processor to the other caller. *)
(* self.base_params and the side-channel of the ToolManager are shared.    *)
(***************************************************************************)
\* largest number of content blocks in one LM response of a session
MaxSessionBlocks == 1

\* the arguments each caller passes to generate_response
CallerQuery == <<"What is ML?", "">>
CallerHistory == <<None, "User: hi">>
CallerTools == <<ToolSchemas, NoTools>>

OtherCaller(c) == IF c = 1 THEN 2 ELSE 1

\* the responses the LM may return in a session: those of at most
\* MaxSessionBlocks blocks whose stop_reason is tool_use exactly when they
\* hold a tool-use block
SessionResponses ==
    { r \in AllResponses :
        /\ Len(r.content) <= MaxSessionBlocks
        /\ r.stop_reason = "tool_use" <=>
               \E k \in 1..Len(r.content) : r.content[k].type = "tool_use" }

\* the run state of the caller that is running
RunState ==
    [pc |-> pc, query |-> query,
     conversation_history |-> conversation_history,
     tools |-> tools, tool_manager |-> tool_manager,
     api_params |-> api_params,
     messages |-> messages, current_response |-> current_response,
     round_count |-> round_count,
     tool_results |-> tool_results, blockIdx |-> blockIdx,
     requests |-> requests,
     responses |-> responses, executed |-> executed, batches |-> batches,
     outcome |-> outcome, result |-> result, faults |-> faults,
     sources_before |-> sources_before]

\* the other caller's call of generate_response gets the processor: its run
\* state comes in, the run state of the caller that was running is set aside
Switch ==
    /\ parked' = RunState
    /\ caller' = OtherCaller(caller)
    /\ pc' = parked.pc
    /\ query' = parked.query
    /\ conversation_history' = parked.conversation_history
    /\ tools' = parked.tools
    /\ tool_manager' = parked.tool_manager
    /\ api_params' = parked.api_params
    /\ messages' = parked.messages
    /\ current_response' = parked.current_response
    /\ round_count' = parked.round_count
    /\ tool_results' = parked.tool_results
    /\ blockIdx' = parked.blockIdx
    /\ requests' = parked.requests
    /\ responses' = parked.responses
    /\ executed' = parked.executed
    /\ batches' = parked.batches
    /\ outcome' = parked.outcome
    /\ result' = parked.result
    /\ faults' = parked.faults
    /\ sources_before' = parked.sources_before
    /\ UNCHANGED <<base_params, last_sources, extracted>>

\* ToolManager.reset_sources, called by a caller outside its run
ResetSources ==
    /\ pc \in {"idle", "done"}
    /\ last_sources # NoSources
    /\ last_sources' = NoSources
    /\ UNCHANGED <<pc, messages, current_response, round_count, tool_results,
                   blockIdx, requests, responses, executed, batches, outcome,
                   result, faults, extracted>>
    /\ UNCHANGED argvars
    /\ UNCHANGED <<base_params, sources_before, caller, parked>>

SessionNext ==
    \/ GenerateResponse(CallerQuery[caller], CallerHistory[caller],
                        CallerTools[caller], ToolManager)
    \/ \E r \in SessionResponses : FirstCallReturns(r)
    \/ FirstCallRaises
    \/ \E out \in ToolOutputs : ToolReturns(out)
    \/ ToolRaises
    \/ \E r \in SessionResponses : FollowUpReturns(r)
    \/ FollowUpRaises
    \/ Switch
    \/ ResetSources

SessionSpec == Init /\ [][SessionNext]_vars

(***************************************************************************)
(* A run whose tools may report a failure in the string they return        *)
(***************************************************************************)
ToolStringNext ==
    \/ \E t \in ToolsArgs :
           GenerateResponse("What is ML?", None, t, ToolManager)
    \/ \E r \in AllResponses : FirstCallReturns(r)
    \/ FirstCallRaises
    \/ \E out \in ToolOutputs \cup ErrorStrings : ToolReturns(out)
    \/ ToolRaises
    \/ \E r \in AllResponses : FollowUpReturns(r)
    \/ FollowUpRaises

ToolStringSpec == Init /\ [][ToolStringNext]_vars

(***************************************************************************)
(* Vocabulary of the properties                                            *)
(***************************************************************************)
Done == pc = "done"

\* number of LM calls (client.messages.create) issued so far
LMCalls == Len(requests)

\* number of tool invocations (tool_manager.execute_tool) issued so far
ToolExecutions == Len(executed)

\* every response obtained so far has stop_reason tool_use
AllResponsesToolUse ==
    \A i \in 1..Len(responses) : responses[i].stop_reason = "tool_use"

\* no LM call and no tool invocation has raised
NoFault == faults = <<>>

ToolRaised == \E i \in 1..Len(faults) : faults[i].kind = "tool"

LMFailed == \E i \in 1..Len(faults) : faults[i].kind = "lm"

\* the positions of the tool-use blocks and of the text blocks of a response
ToolUsePositions(response) ==
    { k \in 1..Len(response.content) : response.content[k].type = "tool_use" }

TextPositions(response) ==
    { k \in 1..Len(response.content) : response.content[k].type = "text" }

\* the text of the first text-bearing block of a response that has one
FirstText(response) ==
    response.content[CHOOSE k \in TextPositions(response) :
                         \A j \in TextPositions(response) : k <= j].text

\* a finished run in which tools and a tool manager were supplied, every LM
\* call returned a response with stop_reason tool_use and no tool raised
AlwaysToolUseRun ==
    /\ Done
    /\ tools # NoTools
    /\ tool_manager # None
    /\ AllResponsesToolUse
    /\ NoFault

(***************************************************************************)
(* C1                                                                      *)
(***************************************************************************)
\* C1 (as claimed): when every LM response has stop_reason tool_use (tools
\* and a tool manager supplied, nothing raising), a run issues exactly
\* MAX_TOOL_ROUNDS LM calls, and a third LM call is never issued.
C1_ExactlyMaxRoundsCalls ==
    /\ AlwaysToolUseRun => LMCalls = MAX_TOOL_ROUNDS
    /\ (tools # NoTools /\ tool_manager # None) => LMCalls <= MAX_TOOL_ROUNDS

\* C1 (amended): when every LM response has stop_reason tool_use (tools and
\* a tool manager supplied, nothing raising), a run issues exactly
\* MAX_TOOL_ROUNDS + 1 LM calls, the first call and one follow-up call per
\* round; a call beyond these is never issued.
C1_ExactlyMaxRoundsPlusOneCalls ==
    /\ AlwaysToolUseRun => LMCalls = MAX_TOOL_ROUNDS + 1
    /\ LMCalls <= MAX_TOOL_ROUNDS + 1

\* a finished run of three tool-requesting responses
C1_Witness ==
    /\ AlwaysToolUseRun
    /\ Len(responses) = MAX_TOOL_ROUNDS + 1
    /\ LMCalls = MAX_TOOL_ROUNDS + 1

(***************************************************************************)
(* C2                                                                      *)
(***************************************************************************)
\* every tool invocation issued so far executes a tool-use block of the
\* response that opened its round, one of the first MAX_TOOL_ROUNDS responses
ExecutedOnlyInRounds ==
    \A i \in 1..Len(executed) :
        /\ executed[i].round \in 1..MAX_TOOL_ROUNDS
        /\ executed[i].round <= Len(responses)
        /\ \E k \in ToolUsePositions(responses[executed[i].round]) :
               responses[executed[i].round].content[k].id = executed[i].id

\* no tool-use block of the response obtained after the last batch is executed
LastResponseNeverExecuted ==
    Len(responses) > MAX_TOOL_ROUNDS =>
        \A k \in ToolUsePositions(responses[MAX_TOOL_ROUNDS + 1]) :
            \A i \in 1..Len(executed) :
                executed[i].id # responses[MAX_TOOL_ROUNDS + 1].content[k].id

C3_LMFailureNeverRaises ==
    LMFailed => (Done /\ outcome = "returned")

(***************************************************************************)
(* C4                                                                      *)
(***************************************************************************)
\* C4: if the tools argument is omitted, generate_response never executes a
\* tool, whatever the stop_reason of the LM response and whether or not a
\* tool_manager was supplied.
C4_NoToolsNoExecution ==
    (pc # "idle" /\ tools = NoTools) => ToolExecutions = 0

(***************************************************************************)
(* C5                                                                      *)
(***************************************************************************)
\* the message list msgs holds, for the tool-use block with this id, a
\* tool_result entry placed after the assistant message with this content
ResultFollowsAssistant(msgs, content, id) ==
    \E a \in 1..Len(msgs) :
        /\ msgs[a].role = "assistant"
        /\ msgs[a].content = content
        /\ \E p \in (a + 1)..Len(msgs) :
               /\ msgs[p].role = "user"
               /\ \E r \in 1..Len(msgs[p].content) :
                      /\ msgs[p].content[r].type = "tool_result"
                      /\ msgs[p].content[r].tool_use_id = id

\* C5: for every tool-use block with id T of the response that opens a
\* round, the messages of the next LM request hold a tool_result entry with
\* tool_use_id T, placed after the assistant message carrying that block; no
\* follow-up request is sent while a tool invocation of the round is pending.
C5_ResultsBeforeNextRequest ==
    /\ \A n \in 2..Len(requests) :
           \A k \in ToolUsePositions(responses[n - 1]) :
               ResultFollowsAssistant(requests[n].messages,
                                      responses[n - 1].content,
                                      responses[n - 1].content[k].id)
    /\ pc = "tool_call" => Len(requests) = Len(responses)

\* a follow-up request has been sent for a response with two tool-use blocks
C5_Witness ==
    /\ Len(requests) >= 2
    /\ Cardinality(ToolUsePositions(responses[1])) >= 2
    /\ Len(requests[2].messages) = 3

(***************************************************************************)
(* C6                                                                      *)
(***************************************************************************)
\* C6: if a tool invocation raises during any round, generate_response
\* returns the fixed apology string, does not raise, and sends no LM request
\* after the failure.
C6_ToolFailureApology ==
    \A i \in 1..Len(faults) :
        faults[i].kind = "tool" =>
            /\ Done
            /\ outcome = "returned"
            /\ result = ToolFailureMessage
            /\ LMCalls = faults[i].calls

\* a tool invocation of the second round has raised
C6_Witness ==
    /\ ToolRaised
    /\ round_count = MAX_TOOL_ROUNDS
    /\ result = ToolFailureMessage

TextResponse(response) ==
    response.stop_reason # "tool_use" /\ TextPositions(response) # {}

\* C8: when the first and the second LM response both request tools (the
\* tools succeed) and the third LM response is a text response, the run
\* issues exactly three LM calls and returns the text of the third response.
C8_TwoRoundsThenText ==
    ( /\ Len(responses) >= 3
      /\ responses[1].stop_reason = "tool_use"
      /\ responses[2].stop_reason = "tool_use"
      /\ TextResponse(responses[3]) ) =>
        /\ Done
        /\ LMCalls = 3
        /\ outcome = "returned"
        /\ result = FirstText(responses[3])

\* two rounds with a tool execution each, then a text response; the second
\* response carried a text of its own
C8_Witness ==
    /\ Done
    /\ Len(responses) = 3
    /\ batches = 2
    /\ ToolExecutions >= 2
    /\ TextPositions(responses[2]) # {}
    /\ TextResponse(responses[3])
    /\ result = FirstText(responses[3])

(***************************************************************************)
(* C9                                                                      *)
(***************************************************************************)
\* C9: when the first LM response requests a tool (which succeeds) and the
\* second LM response does not request a tool, the run issues exactly two LM
\* calls, runs exactly one tool-execution batch, and returns the text of the
\* second response.
C9_OneRoundThenText ==
    ( /\ Len(responses) >= 2
      /\ responses[1].stop_reason = "tool_use"
      /\ responses[2].stop_reason # "tool_use" ) =>
        /\ Done
        /\ LMCalls = 2
        /\ batches = 1
        /\ outcome = "returned"
        /\ TextPositions(responses[2]) # {} => result = FirstText(responses[2])

\* one round with a tool execution, then a text response
C9_Witness ==
    /\ Done
    /\ Len(responses) = 2
    /\ ToolExecutions >= 1
    /\ TextResponse(responses[2])
    /\ result = FirstText(responses[2])

(***************************************************************************)
(* C10                                                                     *)
(***************************************************************************)
\* the round cap is exhausted and the LM still requests tools: the response
\* obtained after the last round has stop_reason tool_use and a non-empty
\* content
CapExhaustedStillRequesting ==
    /\ Len(responses) = MAX_TOOL_ROUNDS + 1
    /\ round_count = MAX_TOOL_ROUNDS
    /\ responses[MAX_TOOL_ROUNDS + 1].stop_reason = "tool_use"
    /\ responses[MAX_TOOL_ROUNDS + 1].content # <<>>

C10_WitnessText ==
    /\ CapExhaustedStillRequesting
    /\ 1 \in ToolUsePositions(responses[MAX_TOOL_ROUNDS + 1])
    /\ TextPositions(responses[MAX_TOOL_ROUNDS + 1]) # {}
    /\ result = FirstText(responses[MAX_TOOL_ROUNDS + 1])

(***************************************************************************)
(* C11                                                                     *)
(***************************************************************************)
\* a follow-up LM call of the round loop has raised
FollowUpFailed == \E i \in 1..Len(faults) :
                      faults[i].kind = "lm" /\ faults[i].calls >= 2

\* the responses obtained so far that carry a text block
TextBearing == { i \in 1..Len(responses) : TextPositions(responses[i]) # {} }

\* C11: when a follow-up LM call fails, generate_response returns the last
\* successfully extracted text if an earlier response carried one, and
\* otherwise the formatted error string naming the failing round.
C11_TransportFailureText ==
    FollowUpFailed =>
        /\ Done
        /\ outcome = "returned"
        /\ IF TextBearing = {}
           THEN result = ErrorMessage(round_count)
           ELSE \E i \in TextBearing : result = FirstText(responses[i])

(***************************************************************************)
(* C12                                                                     *)
(***************************************************************************)
\* C12: for every first LM response whose stop_reason is not tool_use, the
\* run returns the extraction of that response: the text of its first
\* text-bearing block, or the fallback string when the content is empty or
\* holds no text block; the direct-return path never raises.
C12_DirectReturnIsExtraction ==
    (Len(responses) >= 1 /\ responses[1].stop_reason # "tool_use") =>
        /\ outcome = "returned"
        /\ result = ExtractTextContent(responses[1])

(***************************************************************************)
(* C13                                                                     *)
(***************************************************************************)
\* the system content of a request holds the text
SystemContains(request, text) ==
    \E i \in 1..Len(request.system) : request.system[i] = text

\* C13: when conversation_history is non-empty, the system content of every
\* LM request of the run, the first and every follow-up request, contains
\* the literal history text and is the same string in all requests.
C13_HistoryInEveryRequest ==
    (pc # "idle" /\ HistoryGiven(conversation_history)) =>
        \A n \in 1..Len(requests) :
            /\ SystemContains(requests[n], conversation_history)
            /\ requests[n].system = requests[1].system

\* a run with a history has sent its last follow-up request
C13_Witness ==
    /\ HistoryGiven(conversation_history)
    /\ Len(requests) = MAX_TOOL_ROUNDS + 1
    /\ SystemContains(requests[MAX_TOOL_ROUNDS + 1], conversation_history)

(***************************************************************************)
(* C14                                                                     *)
(***************************************************************************)
\* C14: when a non-empty tools list is supplied, every follow-up LM request
\* of the round loop carries that same tools list and tool_choice auto.
C14_ToolsInEveryFollowUp ==
    (pc # "idle" /\ tools # NoTools) =>
        \A n \in 2..Len(requests) :
            /\ "tools" \in requests[n].keys
            /\ requests[n].tools = tools
            /\ "tool_choice" \in requests[n].keys
            /\ requests[n].tool_choice = "auto"

\* a run with tools has sent its last follow-up request
C14_Witness ==
    /\ tools = ToolSchemas
    /\ Len(requests) = MAX_TOOL_ROUNDS + 1
    /\ requests[MAX_TOOL_ROUNDS + 1].tools = ToolSchemas

(***************************************************************************)
(* C15                                                                     *)
(***************************************************************************)
\* the run has reached a terminal outcome: it returned or raised, a tool or
\* an LM call raised, the last response obtained does not request tools, or
\* the response after the last round has been obtained
Terminal ==
    \/ outcome # "running"
    \/ ToolRaised
    \/ LMFailed
    \/ /\ Len(responses) >= 1
       /\ Len(responses) = Len(requests)
       /\ responses[Len(responses)].stop_reason # "tool_use"
    \/ Len(responses) >= MAX_TOOL_ROUNDS + 1

\* C15: once a run has reached a terminal outcome (natural completion,
\* round-cap exhaustion, tool failure or transport failure), the run has
\* ended, and no further LM call and no further tool execution occurs in it.
C15_NothingAfterTerminal ==
    /\ [](Terminal => Done)
    /\ [][Terminal => /\ requests' = requests
                      /\ executed' = executed
                      /\ batches' = batches]_vars

\* a run ended by the failure of its first follow-up call
C15_Witness ==
    /\ Terminal
    /\ FollowUpFailed
    /\ LMCalls = 2
    /\ ToolExecutions >= 1

(***************************************************************************)
(* C16                                                                     *)
(***************************************************************************)
\* C16: in every reachable state of a run, round_count is between 0 and
\* MAX_TOOL_ROUNDS inclusive, and it never decreases.
C16_RoundCountBounded ==
    /\ [](round_count \in 0..MAX_TOOL_ROUNDS)
    /\ [][round_count' >= round_count]_vars

\* the second round has been entered and its follow-up call answered
C16_Witness ==
    /\ round_count = MAX_TOOL_ROUNDS
    /\ Len(responses) = MAX_TOOL_ROUNDS + 1

(***************************************************************************)
(* C17                                                                     *)
(***************************************************************************)
\* the position, in the content of the response that opened its round, of
\* the block the i-th tool invocation executes
ExecPos(i) ==
    CHOOSE k \in ToolUsePositions(responses[executed[i].round]) :
        responses[executed[i].round].content[k].id = executed[i].id

\* within a round the tool-use blocks are invoked in content order, none
\* being skipped
InContentOrder ==
    \A i \in 1..Len(executed) :
        /\ \A j \in (i + 1)..Len(executed) :
               executed[j].round = executed[i].round => ExecPos(i) < ExecPos(j)
        /\ \A k \in ToolUsePositions(responses[executed[i].round]) :
               k < ExecPos(i) =>
                   \E j \in 1..(i - 1) :
                       /\ executed[j].round = executed[i].round
                       /\ ExecPos(j) = k

\* C17: within one batch the tool-use blocks are executed in content order
\* and, if the invocation of block k raises, no block after k of that batch
\* is executed and the batch reports failure with an empty result list, the
\* results of the blocks before k being discarded.
C17_FailFastBatch ==
    /\ InContentOrder
    /\ ToolRaised =>
           /\ Done
           /\ tool_results = <<>>
           /\ executed[Len(executed)].round = round_count
           /\ ExecPos(Len(executed)) = blockIdx
           /\ messages[Len(messages)].role = "assistant"

\* the first of two tool-use blocks raised and the second was not executed
C17_Witness ==
    /\ ToolRaised
    /\ blockIdx = 1
    /\ 2 \in ToolUsePositions(current_response)
    /\ \A i \in 1..Len(executed) :
           executed[i].round = round_count => ExecPos(i) = 1

(***************************************************************************)
(* C18                                                                     *)
(***************************************************************************)
\* the position of the r-th tool-use block of a response
NthToolUse(response, r) ==
    CHOOSE k \in ToolUsePositions(response) :
        Cardinality({ j \in ToolUsePositions(response) : j < k }) = r - 1

\* the n-th request extends the messages of the request before it by the
\* assistant message of the round and one user message that holds one
\* tool_result per tool-use block of the response, with the block's id, in
\* the order of the blocks
RoundAppendsResults(n) ==
    LET response == responses[n - 1]
        prev == requests[n - 1].messages
        cur  == requests[n].messages
        m    == Cardinality(ToolUsePositions(response))
    IN  /\ Len(cur) = Len(prev) + 2
        /\ cur[Len(prev) + 1].role = "assistant"
        /\ cur[Len(cur)].role = "user"
        /\ Len(cur[Len(cur)].content) = m
        /\ \A r \in 1..m :
               /\ cur[Len(cur)].content[r].type = "tool_result"
               /\ cur[Len(cur)].content[r].tool_use_id =
                      response.content[NthToolUse(response, r)].id

\* the n-th request extends the messages of the request before it by the
\* assistant message of the round only
RoundAppendsNoResults(n) ==
    /\ Len(requests[n].messages) = Len(requests[n - 1].messages) + 1
    /\ requests[n].messages[Len(requests[n].messages)].role = "assistant"

\* C18 (as claimed): after a successful batch, exactly one user message is
\* appended for the round, holding exactly one tool_result per tool-use
\* block of the response, each with that block's id, in the order of the
\* blocks.
C18_OneResultMessagePerBatch ==
    \A n \in 2..Len(requests) : RoundAppendsResults(n)

\* C18 (amended): after a successful batch of a response that holds at
\* least one tool-use block, exactly one user message is appended for the
\* round, holding exactly one tool_result per tool-use block, each with that
\* block's id, in the order of the blocks; after a successful batch of a
\* response without tool-use block no user message is appended.
C18_OneResultMessagePerNonEmptyBatch ==
    \A n \in 2..Len(requests) :
        IF ToolUsePositions(responses[n - 1]) # {}
        THEN RoundAppendsResults(n)
        ELSE RoundAppendsNoResults(n)

\* the second round executed two tool-use blocks and its follow-up request
\* has been sent
C18_Witness ==
    /\ Len(requests) = MAX_TOOL_ROUNDS + 1
    /\ Cardinality(ToolUsePositions(responses[1])) = 1
    /\ Cardinality(ToolUsePositions(responses[2])) = 2
    /\ Len(requests[3].messages) = 5

(***************************************************************************)
(* C19                                                                     *)
(***************************************************************************)
\* a response without text: none at all, an empty content, or a content
\* without text block
Textless(response) == TextPositions(response) = {}

\* every application returned the text of the first content element if it
\* carries text, otherwise the text of the first text-bearing element
ExtractsFirstText ==
    \A i \in 1..Len(extracted) :
        ~Textless(extracted[i].response) =>
            extracted[i].text = FirstText(extracted[i].response)

\* C19 (as claimed): _extract_text_content returns the text of the first
\* content element if it carries text, otherwise the text of the first
\* text-bearing element, otherwise one fixed fallback string, the same
\* whether the content is empty or merely has no text block.
C19_OneFallbackString ==
    /\ ExtractsFirstText
    /\ \A i, j \in 1..Len(extracted) :
           (Textless(extracted[i].response) /\ Textless(extracted[j].response))
               => extracted[i].text = extracted[j].text

\* C19 (amended): _extract_text_content returns the text of the first
\* content element if it carries text, otherwise the text of the first
\* text-bearing element, otherwise a fixed fallback string: EmptyResponseMessage
\* when there is no response or its content is empty, NoTextMessage when the
\* content is non-empty and has no text block.
C19_TwoFallbackStrings ==
    /\ ExtractsFirstText
    /\ \A i \in 1..Len(extracted) :
           Textless(extracted[i].response) =>
               extracted[i].text =
                   IF extracted[i].response.content = <<>>
                   THEN EmptyResponseMessage
                   ELSE NoTextMessage

\* the function was applied to an empty content and to a content whose
\* text follows a tool-use block
C19_Witness ==
    /\ Len(extracted) = 2
    /\ extracted[1].response.stop_reason = "end_turn"
    /\ extracted[1].response.content = <<>>
    /\ extracted[1].text = EmptyResponseMessage
    /\ Len(extracted[2].response.content) = 2
    /\ TextPositions(extracted[2].response) = {2}
    /\ extracted[2].text = extracted[2].response.content[2].text

(***************************************************************************)
(* C20                                                                     *)
(***************************************************************************)
\* the first request holds exactly one user message, with the query
FirstRequestHoldsQuery ==
    pc # "idle" =>
        requests[1].messages = << [role |-> "user", content |-> query] >>

\* the messages of the n-th request are those of the request before it
\* followed by extra further messages, the first of which is the assistant
\* message carrying the content of the response of the round
ExtendsPrevious(n, extra) ==
    LET prev == requests[n - 1].messages
        cur  == requests[n].messages
    IN  /\ Len(cur) = Len(prev) + extra
        /\ SubSeq(cur, 1, Len(prev)) = prev
        /\ cur[Len(prev) + 1].role = "assistant"
        /\ cur[Len(prev) + 1].content = responses[n - 1].content
        /\ \A p \in (Len(prev) + 2)..Len(cur) : cur[p].role = "user"

\* C20 (as claimed): the first request holds exactly one user message with
\* the query, and the message list of each follow-up request has that of
\* the previous request as a prefix, extended by the assistant tool-use
\* message and the user tool-result message of the round, so that the
\* second request holds at least 3 messages.
C20_AppendOnlyTwoPerRound ==
    /\ FirstRequestHoldsQuery
    /\ \A n \in 2..Len(requests) : ExtendsPrevious(n, 2)
    /\ Len(requests) >= 2 => Len(requests[2].messages) >= 3

\* C20 (amended): the first request holds exactly one user message with the
\* query, and the message list of each follow-up request has that of the
\* previous request as a prefix, extended by the assistant message of the
\* round and, when the response of the round holds at least one tool-use
\* block, by the user tool-result message; the second request holds at
\* least 2 messages, and 3 when the first response holds a tool-use block.
C20_AppendOnly ==
    /\ FirstRequestHoldsQuery
    /\ \A n \in 2..Len(requests) :
           ExtendsPrevious(n, IF ToolUsePositions(responses[n - 1]) # {}
                              THEN 2 ELSE 1)
    /\ Len(requests) >= 2 =>
           Len(requests[2].messages) >=
               (IF ToolUsePositions(responses[1]) # {} THEN 3 ELSE 2)

\* the last follow-up request holds the messages of both rounds, each round
\* having executed a tool
C20_Witness ==
    /\ Len(requests) = MAX_TOOL_ROUNDS + 1
    /\ ToolUsePositions(responses[1]) # {}
    /\ ToolUsePositions(responses[2]) # {}
    /\ Len(requests[2].messages) = 3
    /\ Len(requests[3].messages) = 5
    /\ SubSeq(requests[3].messages, 1, 3) = requests[2].messages

(***************************************************************************)
(* C21                                                                     *)
(***************************************************************************)
\* the tool invocations issued so far in round n
InvocationsOfRound(n) == { i \in 1..Len(executed) : executed[i].round = n }

\* the tool_result entries of the user message that closes the message list
\* msgs, none if the list closes with the assistant message
ClosingResults(msgs) ==
    IF msgs[Len(msgs)].role = "user" /\ Len(msgs) > 1
    THEN msgs[Len(msgs)].content
    ELSE <<>>

\* the request that follows round n - 1 holds the result of every tool
\* invocation of that round
RequestHoldsResultsOfRound(n) ==
    /\ Len(ClosingResults(requests[n].messages)) =
           Cardinality(InvocationsOfRound(n - 1))
    /\ \A i \in InvocationsOfRound(n - 1) :
           ResultFollowsAssistant(requests[n].messages,
                                  responses[n - 1].content, executed[i].id)

\* while a tool invocation is pending no LM request is in flight, and every
\* invocation belongs to the response obtained last
NoRequestWhileToolRuns ==
    /\ pc = "tool_call" =>
           /\ Len(requests) = Len(responses)
           /\ executed[Len(executed)].round = Len(responses)
    /\ \A i \in 1..Len(executed) : executed[i].round <= Len(responses)

\* C21: rounds never overlap: the LM request that follows round n is sent
\* only after every tool invocation of the batch of round n has completed
\* and its results have been appended, and no tool of a later response is
\* executed before that request has returned.
C21_RoundsNeverOverlap ==
    /\ [](NoRequestWhileToolRuns /\
          \A n \in 2..Len(requests) : RequestHoldsResultsOfRound(n))
    /\ [][ /\ (Len(requests') > Len(requests) /\ requests # <<>>) =>
                  /\ pc' = "lm_next"
                  /\ Len(tool_results') =
                         Cardinality({ i \in 1..Len(executed') :
                                          executed'[i].round = round_count' })
           /\ Len(executed') > Len(executed) =>
                  /\ Len(requests') = Len(responses')
                  /\ executed'[Len(executed')].round = Len(responses') ]_vars

\* the request that follows the second round has been sent, each round
\* having run two tool invocations
C21_Witness ==
    /\ Len(requests) = MAX_TOOL_ROUNDS + 1
    /\ Cardinality(InvocationsOfRound(1)) = 2
    /\ Cardinality(InvocationsOfRound(2)) = 2
    /\ pc = "lm_next"

(***************************************************************************)
(* C22                                                                     *)
(***************************************************************************)
\* C22: the first LM request of a run holds a message list of a single user
\* message with the query, also for an empty query, which does not raise;
\* it holds the tools list together with tool_choice auto exactly when tool
\* schemas were supplied, and neither of them when none were supplied.
C22_FirstRequestShape ==
    pc # "idle" =>
        /\ Len(requests) >= 1
        /\ requests[1].messages = << [role |-> "user", content |-> query] >>
        /\ (pc = "lm_first" => outcome = "running")
        /\ IF tools # NoTools
           THEN /\ requests[1].keys = {"tools", "tool_choice"}
                /\ requests[1].tools = tools
                /\ requests[1].tool_choice = "auto"
           ELSE requests[1].keys = {}

\* the first request of a run with an empty query and no tool schemas has
\* been sent
C22_Witness ==
    /\ pc = "lm_first"
    /\ query = ""
    /\ tools = NoTools
    /\ requests[1].messages = << [role |-> "user", content |-> ""] >>
    /\ requests[1].keys = {}

(***************************************************************************)
(* C27                                                                     *)
(***************************************************************************)
\* the roles of a message list
Roles(msgs) == [i \in 1..Len(msgs) |-> msgs[i].role]

\* the roles alternate user, assistant, user, ..., starting and ending with
\* a user message
AlternatesEndingWithUser(roles) ==
    /\ Len(roles) % 2 = 1
    /\ \A i \in 1..Len(roles) :
           roles[i] = IF i % 2 = 1 THEN "user" ELSE "assistant"

\* the roles the rounds before the n-th request give its message list: the
\* user message of the query, then per round an assistant message, followed
\* by a user message when the response of the round holds a tool-use block
RECURSIVE RolesOfRounds(_)
RolesOfRounds(n) ==
    IF n = 1
    THEN <<"user">>
    ELSE RolesOfRounds(n - 1) \o
         (IF ToolUsePositions(responses[n - 1]) # {}
          THEN <<"assistant", "user">>
          ELSE <<"assistant">>)

\* every response that opened a round before the n-th request holds a
\* tool-use block
RoundsExecutedTools(n) ==
    \A i \in 1..(n - 1) : ToolUsePositions(responses[i]) # {}

\* C27 (as claimed): in every LM request sent by a run, the message roles
\* alternate user, assistant, user, ..., starting and ending with a user
\* message, also when a response has stop_reason tool_use but holds no
\* tool-use block.
C27_RolesAlternate ==
    \A n \in 1..Len(requests) :
        AlternatesEndingWithUser(Roles(requests[n].messages))

\* C27 (amended): every LM request of a run starts with the user message of
\* the query, and each round before it adds an assistant message, followed
\* by a user message only when the response of the round holds a tool-use
\* block; the roles alternate user, assistant, user, ... and end with a user
\* message exactly in the requests whose earlier rounds all executed a tool.
C27_RolesFollowRounds ==
    \A n \in 1..Len(requests) :
        /\ Roles(requests[n].messages) = RolesOfRounds(n)
        /\ AlternatesEndingWithUser(Roles(requests[n].messages))
               <=> RoundsExecutedTools(n)

\* the last follow-up request of a run whose rounds both executed a tool:
\* five messages of alternating roles
C27_Witness ==
    /\ Len(requests) = MAX_TOOL_ROUNDS + 1
    /\ RoundsExecutedTools(MAX_TOOL_ROUNDS + 1)
    /\ Roles(requests[MAX_TOOL_ROUNDS + 1].messages) =
           <<"user", "assistant", "user", "assistant", "user">>

(***************************************************************************)
(* C28                                                                     *)
(***************************************************************************)
\* C28: every follow-up request of a run has the tool configuration of the
\* first request: it carries a tools list and a tool_choice exactly when
\* the first request did, with the same values; when tools were omitted and
\* a tool_manager was supplied, follow-up requests carry no tools entry and
\* no tool_choice entry.
C28_SameToolConfiguration ==
    \A n \in 2..Len(requests) :
        /\ requests[n].keys = requests[1].keys
        /\ "tools" \in requests[1].keys =>
               requests[n].tools = requests[1].tools
        /\ "tool_choice" \in requests[1].keys =>
               requests[n].tool_choice = requests[1].tool_choice

(***************************************************************************)
(* C30                                                                     *)
(***************************************************************************)
\* the texts carried by the text blocks of a response
TextsOf(response) ==
    { response.content[k].text : k \in TextPositions(response) }

\* the fixed strings generate_response may return
FixedStrings ==
    {ToolFailureMessage, EmptyResponseMessage, NoTextMessage}
        \cup { ErrorMessage(rc) : rc \in 1..MAX_TOOL_ROUNDS }

\* the texts of the responses obtained before the last one
EarlierTexts ==
    UNION { TextsOf(responses[i]) : i \in 1..(Len(responses) - 1) }

\* C30: whenever generate_response returns text taken from an LM response,
\* that response is the last one the run obtained successfully, never an
\* earlier one; every other return value is one of the fixed strings: the
\* tool-failure apology, one of the two extraction fallback strings, or the
\* formatted transport error.
C30_TextOfLastResponse ==
    (Done /\ outcome = "returned") =>
        /\ result \notin EarlierTexts
        /\ \/ result \in FixedStrings
           \/ /\ responses # <<>>
              /\ result \in TextsOf(responses[Len(responses)])

\* a follow-up call failed after two responses were obtained, both carrying
\* text: the text of the second one, obtained last, is returned
C30_Witness ==
    /\ Done
    /\ FollowUpFailed
    /\ Len(responses) = 2
    /\ TextsOf(responses[1]) # {}
    /\ TextsOf(responses[2]) # {}
    /\ result \in TextsOf(responses[2])

(***************************************************************************)
(* A run whose LM calls and tool invocations all return or raise           *)
(***************************************************************************)
\* the steps of the environment: the pending LM call or tool invocation
\* returns or raises
EnvironmentAnswers ==
    \/ \E r \in AllResponses : FirstCallReturns(r)
    \/ FirstCallRaises
    \/ \E out \in ToolOutputs : ToolReturns(out)
    \/ ToolRaises
    \/ \E r \in AllResponses : FollowUpReturns(r)
    \/ FollowUpRaises

\* generate_response is called; the query and the history have no part in
\* the control flow of the run and are fixed
FairNext ==
    \/ \E t \in ToolsArgs, tm \in ToolManagers :
           GenerateResponse("What is ML?", None, t, tm)
    \/ EnvironmentAnswers

\* no LM call and no tool invocation blocks forever
FairSpec == Init /\ [][FairNext]_vars /\ WF_vars(EnvironmentAnswers)

(***************************************************************************)
(* C26                                                                     *)
(***************************************************************************)
\* C26: every generate_response run terminates: provided each LM call and
\* each tool invocation returns or raises, the run reaches a terminal
\* outcome after at most MAX_TOOL_ROUNDS + 1 LM calls and at most
\* MAX_TOOL_ROUNDS tool batches, however the LM answers, an LM that
\* requests tools forever included.
C26_RunTerminates ==
    /\ (pc # "idle") ~> (Done /\ outcome # "running")
    /\ [](LMCalls <= MAX_TOOL_ROUNDS + 1 /\ batches <= MAX_TOOL_ROUNDS)

\* a run has ended after the LM requested tools in every response
C26_Witness ==
    /\ Done
    /\ outcome = "returned"
    /\ AllResponsesToolUse
    /\ LMCalls = MAX_TOOL_ROUNDS + 1
    /\ batches = MAX_TOOL_ROUNDS
    /\ ToolExecutions >= MAX_TOOL_ROUNDS

(***************************************************************************)
(* C29                                                                     *)
(***************************************************************************)
\* the responses that opened a round: the tool-requesting ones among the
\* first MAX_TOOL_ROUNDS responses
RoundResponses ==
    { i \in 1..Len(responses) :
        i <= MAX_TOOL_ROUNDS /\ responses[i].stop_reason = "tool_use" }

\* the tool-use blocks of the responses that opened a round, as pairs of
\* the response and the position in its content
RoundBlocks ==
    UNION { { <<i, k>> : k \in ToolUsePositions(responses[i]) } :
              i \in RoundResponses }

\* C29: each tool-use block emitted by the LM is executed at most once in a
\* run: the number of tool invocations never exceeds the number of tool-use
\* blocks of the first two tool-requesting responses, and a block is
\* invoked with exactly its own name and input.
C29_EachBlockAtMostOnce ==
    /\ \A i, j \in 1..Len(executed) :
           (executed[i].round = executed[j].round /\
            executed[i].id = executed[j].id) => i = j
    /\ Len(executed) <= Cardinality(RoundBlocks)
    /\ \A i \in 1..Len(executed) :
           /\ <<executed[i].round, ExecPos(i)>> \in RoundBlocks
           /\ executed[i].name =
                  responses[executed[i].round].content[ExecPos(i)].name
           /\ executed[i].input =
                  responses[executed[i].round].content[ExecPos(i)].input

\* both rounds invoked two tools of different names, every block once
C29_Witness ==
    /\ Done
    /\ Len(executed) = 4
    /\ Cardinality(RoundBlocks) = 4
    /\ executed[1].name # executed[2].name
    /\ executed[3].input # executed[4].input

(***************************************************************************)
(* C23                                                                     *)
(***************************************************************************)
\* the pending tool invocation returns: a tool execution completes
ToolExecutionCompletes ==
    \E out \in ToolOutputs \cup ErrorStrings : ToolReturns(out)

\* the run of the caller the sources in the side-channel are tagged with
RunOfSources ==
    IF last_sources.caller = caller THEN RunState ELSE parked

\* the sources in the side-channel were left by a tool execution: the run
\* they are tagged with invoked a tool for the tool-use block they name
SourcesLeftByTool ==
    last_sources # NoSources =>
        \E i \in 1..Len(RunOfSources.executed) :
            RunOfSources.executed[i].id = last_sources.tool_use_id

\* C23: the last-sources side-channel of the ToolManager is changed only by
\* tool executions: no step of the engine (building or sending a request,
\* extracting text, ending a run, starting a new run) reads, resets or
\* writes it, so that sources left by an earlier run are still present
\* after a later run that executes no tool, unless the caller resets them.
C23_SourcesChangedOnlyByTools ==
    /\ []SourcesLeftByTool
    /\ [][last_sources' # last_sources =>
              (ToolExecutionCompletes \/ ResetSources)]_vars

\* a run that started when the side-channel held sources left by the other
\* caller's run has ended without executing a tool; the other run has
\* ended too, and its sources are still there
C23_Witness ==
    /\ Done
    /\ outcome = "returned"
    /\ executed = <<>>
    /\ parked.pc = "done"
    /\ parked.executed # <<>>
    /\ sources_before = OtherCaller(caller)
    /\ last_sources.caller = OtherCaller(caller)
    /\ \E i \in 1..Len(parked.executed) :
           parked.executed[i].id = last_sources.tool_use_id

(***************************************************************************)
(* C24                                                                     *)
(***************************************************************************)
\* the run state run of caller c is the run's own: the first request holds
\* the query of c alone and, inside the round loop, round_count counts the
\* responses of this run from 0, the conversation starts with the query of
\* c, its assistant messages carry the contents of this run's responses in
\* their order, and the run has no outcome yet
OwnRunState(run, c) ==
    /\ run.pc = "idle" =>
           /\ run.requests = <<>>
           /\ run.messages = <<>>
           /\ run.round_count = 0
    /\ run.pc # "idle" =>
           /\ run.query = CallerQuery[c]
           /\ run.requests[1].messages =
                  << [role |-> "user", content |-> CallerQuery[c]] >>
           /\ run.round_count <= Len(run.responses)
    /\ run.pc \in {"tool_call", "lm_next"} =>
           /\ run.round_count = Len(run.responses)
           /\ run.messages[1] = [role |-> "user", content |-> CallerQuery[c]]
           /\ LET A == { p \in 1..Len(run.messages) :
                           run.messages[p].role = "assistant" }
              IN  /\ Cardinality(A) = Len(run.responses)
                  /\ \A p \in A :
                         run.messages[p].content =
                             run.responses[Cardinality({ a \in A : a <= p })].content
           /\ run.outcome = "running"
    /\ run.outcome = "running" <=> run.pc # "done"

\* C24: run state is fresh and private per top-level query: every run of
\* generate_response starts with round_count 0 and a message list holding
\* only its own query, and when two runs on the same AIGenerator interleave,
\* neither run's messages, round_count or outcome is affected by the other;
\* the shared base_params is never modified by a run.
C24_RunStatePrivate ==
    /\ [](OwnRunState(RunState, caller) /\
          OwnRunState(parked, OtherCaller(caller)) /\
          base_params = InitialBaseParams)
    /\ [][ /\ caller' = caller => parked' = parked
           /\ caller' # caller => (parked' = RunState /\ RunState' = parked)
           /\ base_params' = base_params ]_vars

\* the runs of the two callers interleave: one waits for the LM in its
\* second round while the other waits for a tool in its first
C24_Witness ==
    /\ pc = "lm_next"
    /\ round_count = MAX_TOOL_ROUNDS
    /\ parked.pc = "tool_call"
    /\ parked.round_count = 1
    /\ messages[1].content # parked.messages[1].content
    /\ Len(messages) = 5
    /\ Len(parked.messages) = 2

(***************************************************************************)
(* C25                                                                     *)
(***************************************************************************)
\* the tool_result entries of the n-th request that carry an error string
ErrorResults(n) ==
    { r \in 1..Len(ClosingResults(requests[n].messages)) :
        ClosingResults(requests[n].messages)[r].content \in ErrorStrings }

\* C25: a tool that reports its failure as a returned error string (it does
\* not raise) is treated as a successful execution: the string is sent to
\* the LM as the tool_result of its block, the follow-up LM request is
\* issued, and the run does not end with the tool-failure apology.
C25_ErrorStringIsSuccess ==
    /\ \A n \in 2..Len(requests) :
           /\ RequestHoldsResultsOfRound(n)
           /\ \A r \in ErrorResults(n) :
                  ClosingResults(requests[n].messages)[r].tool_use_id =
                      responses[n - 1].content[NthToolUse(responses[n - 1], r)].id
    /\ pc = "tool_call" =>
           Len(tool_results) = Cardinality(InvocationsOfRound(round_count)) - 1
    /\ (~ToolRaised /\ pc \in {"lm_next", "done"}) => Len(requests) = batches + 1
    /\ (Done /\ outcome = "returned" /\ result = ToolFailureMessage) => ToolRaised

\* the only tool of the first round returned an error string, the follow-up
\* request carried it, and the run returned the text of the second response
C25_Witness ==
    /\ Done
    /\ ~ToolRaised
    /\ Len(requests) = 2
    /\ Cardinality(InvocationsOfRound(1)) = 1
    /\ ErrorResults(2) = {1}
    /\ TextResponse(responses[2])
    /\ result = FirstText(responses[2])

(***************************************************************************)
(* C31                                                                     *)
(***************************************************************************)
\* C31: when no tool_manager is supplied, a run performs exactly one LM
\* call and zero tool executions whatever the stop_reason of the first
\* response is, and never enters the round loop.
C31_NoManagerOneCall ==
    (pc # "idle" /\ tool_manager = None) =>
        /\ LMCalls = 1
        /\ ToolExecutions = 0
        /\ batches = 0
        /\ round_count = 0
        /\ messages = <<>>
        /\ pc \in {"lm_first", "done"}
        /\ Len(responses) = 1 => Done

\* a run without tool manager has ended on a first response that requests
\* a tool, tool schemas being supplied
C31_Witness ==
    /\ Done
    /\ tool_manager = None
    /\ tools = ToolSchemas
    /\ Len(responses) = 1
    /\ responses[1].stop_reason = "tool_use"
    /\ ToolUsePositions(responses[1]) # {}
    /\ LMCalls = 1
    /\ ToolExecutions = 0

(***************************************************************************)
(* C32                                                                     *)
(***************************************************************************)
\* C32: when conversation_history is absent or the empty string, the system
\* content of every request of the run is exactly the fixed system prompt,
\* with no "Previous conversation" section; when it is non-empty, the
\* system content is the fixed prompt followed by the "Previous
\* conversation:" delimiter and the history text.
C32_SystemContentForms ==
    pc # "idle" =>
        \A n \in 1..Len(requests) :
            IF conversation_history = None \/ conversation_history = ""
            THEN requests[n].system = <<SYSTEM_PROMPT>>
            ELSE requests[n].system =
                     <<SYSTEM_PROMPT, "\n\nPrevious conversation:\n",
                       conversation_history>>

\* a run with the empty string for history has sent its last follow-up
\* request, whose system content is the fixed prompt alone
C32_Witness ==
    /\ conversation_history = ""
    /\ Len(requests) = MAX_TOOL_ROUNDS + 1
    /\ requests[1].system = <<SYSTEM_PROMPT>>
    /\ requests[MAX_TOOL_ROUNDS + 1].system = <<SYSTEM_PROMPT>>

=============================================================================
